---- MODULE Spec2Model ----
(***************************************************************************)
(* The flow controller of flowcontrol/flow_controller.go: send- and        *)
(* receive-side byte accounting of one scope (a stream, or the connection  *)
(* when streamID = 0), with the RTT-gated growth of the receive window     *)
(* increment.                                                              *)
(*                                                                         *)
(* protocol.ByteCount is an unsigned 64-bit integer.  The model keeps the  *)
(* unsigned, wrapping arithmetic but scales the width down: a ByteCount    *)
(* is a value of 0..MaxByteCount and every sum, difference and product the *)
(* code computes is taken modulo MaxByteCount + 1.                         *)
(*                                                                         *)
(* time.Time is a clock reading 1..MaxTime (time.Now() never returns the   *)
(* zero Time); 0 is the zero Time, for which IsZero() holds.               *)
(***************************************************************************)
EXTENDS Integers, FiniteSets, Sequences, TLC

\* Largest value of the (scaled-down) unsigned ByteCount type.
MaxByteCount == 7
\* Largest reading of the clock.
MaxTime == 3
\* Largest smoothed RTT the RTT estimator reports.
MaxRTT == 1
\* The id of the stream; stream id 0 is the connection-level flow controller.
MaxStreamID == 1
\* Number of streams of the connection whose offsets are aggregated.
MaxStreams == 2

Mod == MaxByteCount + 1
ByteCount == 0..MaxByteCount
StreamIDs == {0, MaxStreamID}
Durations == 0..MaxRTT

\* Unsigned wrap-around of an arithmetic result to the width of ByteCount.
Wrap(x) == ((x % Mod) + Mod) % Mod

MinByteCount(a, b) == IF a < b THEN a ELSE b

VARIABLES
    streamID,                   \* c.streamID
    connectionParameters,       \* values the ConnectionParametersManager returns
    rtt,                        \* c.rttStats.SmoothedRTT()
    now,                        \* time.Now()
    bytesSent,
    sendWindow,
    lastWindowUpdateTime,       \* 0 is the zero Time
    bytesRead,
    highestReceived,
    receiveWindow,
    receiveWindowIncrement,
    maxReceiveWindowIncrement,
    ret,                        \* the last call and what it returned
    streamControllers           \* highestReceived of the stream-level
                                \* controllers of a connection-level one

fields == <<streamID, connectionParameters, bytesSent, sendWindow,
            lastWindowUpdateTime, bytesRead, highestReceived, receiveWindow,
            receiveWindowIncrement, maxReceiveWindowIncrement>>
env == <<rtt, now, streamControllers>>
vars == <<fields, env, ret>>

\* What a call returned: the method, its bool, its ByteCount and its error.
Returned(op, flag, count, err) ==
    [op |-> op, flag |-> flag, count |-> count, err |-> err]

NoError == "nil"
ErrReceivedSmallerByteOffset == "Received a smaller byte offset"

\* The values negotiated for one connection, one per getter.
ConnectionParametersManager(rc, mrc, rs, mrs, sc, ss) ==
    [ReceiveConnectionFlowControlWindow    |-> rc,
     MaxReceiveConnectionFlowControlWindow |-> mrc,
     ReceiveStreamFlowControlWindow        |-> rs,
     MaxReceiveStreamFlowControlWindow     |-> mrs,
     SendConnectionFlowControlWindow       |-> sc,
     SendStreamFlowControlWindow           |-> ss]

----------------------------------------------------------------------------
\* Construction

\* A faulty newFlowController: it reads the stream-level windows whatever the
\* stream id.
newFlowControllerStreamWindows(sid, cp) ==
    /\ streamID = sid
    /\ connectionParameters = cp
    /\ bytesSent = 0
    /\ sendWindow = 0
    /\ lastWindowUpdateTime = 0
    /\ bytesRead = 0
    /\ highestReceived = 0
    /\ receiveWindow = cp.ReceiveStreamFlowControlWindow
    /\ receiveWindowIncrement = cp.ReceiveStreamFlowControlWindow
    /\ maxReceiveWindowIncrement = cp.MaxReceiveStreamFlowControlWindow
    /\ ret = Returned("newFlowController", FALSE, 0, NoError)

newFlowController(sid, cp) ==
    /\ streamID = sid
    /\ connectionParameters = cp
    /\ bytesSent = 0
    /\ sendWindow = 0
    /\ lastWindowUpdateTime = 0
    /\ bytesRead = 0
    /\ highestReceived = 0
    /\ IF sid = 0
       THEN /\ receiveWindow = cp.ReceiveConnectionFlowControlWindow
            /\ receiveWindowIncrement = cp.ReceiveConnectionFlowControlWindow
            /\ maxReceiveWindowIncrement = cp.MaxReceiveConnectionFlowControlWindow
       ELSE /\ receiveWindow = cp.ReceiveStreamFlowControlWindow
            /\ receiveWindowIncrement = cp.ReceiveStreamFlowControlWindow
            /\ maxReceiveWindowIncrement = cp.MaxReceiveStreamFlowControlWindow
    /\ ret = Returned("newFlowController", FALSE, 0, NoError)

----------------------------------------------------------------------------
\* Send side

getSendWindow ==
    IF sendWindow = 0
    THEN IF streamID = 0
         THEN connectionParameters.SendConnectionFlowControlWindow
         ELSE connectionParameters.SendStreamFlowControlWindow
    ELSE sendWindow

AddBytesSent(n) ==
    /\ bytesSent' = Wrap(bytesSent + n)
    /\ ret' = Returned("AddBytesSent", FALSE, 0, NoError)
    /\ UNCHANGED <<streamID, connectionParameters, sendWindow,
                   lastWindowUpdateTime, bytesRead, highestReceived,
                   receiveWindow, receiveWindowIncrement,
                   maxReceiveWindowIncrement, env>>

\* A faulty UpdateSendWindow: it stores every offset that differs from the
\* stored one, so a stale announcement shrinks the window.
UpdateSendWindowOverwrite(newOffset) ==
    /\ IF newOffset # sendWindow
       THEN /\ sendWindow' = newOffset
            /\ ret' = Returned("UpdateSendWindow", TRUE, 0, NoError)
       ELSE /\ sendWindow' = sendWindow
            /\ ret' = Returned("UpdateSendWindow", FALSE, 0, NoError)
    /\ UNCHANGED <<streamID, connectionParameters, bytesSent,
                   lastWindowUpdateTime, bytesRead, highestReceived,
                   receiveWindow, receiveWindowIncrement,
                   maxReceiveWindowIncrement, env>>

UpdateSendWindow(newOffset) ==
    /\ IF newOffset > sendWindow
       THEN /\ sendWindow' = newOffset
            /\ ret' = Returned("UpdateSendWindow", TRUE, 0, NoError)
       ELSE /\ sendWindow' = sendWindow
            /\ ret' = Returned("UpdateSendWindow", FALSE, 0, NoError)
    /\ UNCHANGED <<streamID, connectionParameters, bytesSent,
                   lastWindowUpdateTime, bytesRead, highestReceived,
                   receiveWindow, receiveWindowIncrement,
                   maxReceiveWindowIncrement, env>>

\* A faulty SendWindowSize: the underflow guard is missing.
SendWindowSizeUnguarded ==
    /\ ret' = Returned("SendWindowSize", FALSE,
                       Wrap(getSendWindow - bytesSent), NoError)
    /\ UNCHANGED <<fields, env>>

SendWindowSize ==
    /\ LET window == getSendWindow
       IN  IF bytesSent > window
           THEN ret' = Returned("SendWindowSize", FALSE, 0, NoError)
           ELSE ret' = Returned("SendWindowSize", FALSE,
                                Wrap(window - bytesSent), NoError)
    /\ UNCHANGED <<fields, env>>

SendWindowOffset ==
    /\ ret' = Returned("SendWindowOffset", FALSE, getSendWindow, NoError)
    /\ UNCHANGED <<fields, env>>

----------------------------------------------------------------------------
\* Receive side

\* A faulty UpdateHighestReceived: the test for a duplicate offset is missing,
\* so an offset equal to highestReceived is reported as a smaller one.
UpdateHighestReceivedNoDuplicate(byteOffset) ==
    /\ IF byteOffset > highestReceived
       THEN /\ highestReceived' = byteOffset
            /\ ret' = Returned("UpdateHighestReceived", FALSE,
                               Wrap(byteOffset - highestReceived), NoError)
       ELSE /\ highestReceived' = highestReceived
            /\ ret' = Returned("UpdateHighestReceived", FALSE, 0,
                               ErrReceivedSmallerByteOffset)
    /\ UNCHANGED <<streamID, connectionParameters, bytesSent, sendWindow,
                   lastWindowUpdateTime, bytesRead, receiveWindow,
                   receiveWindowIncrement, maxReceiveWindowIncrement, env>>

\* A faulty UpdateHighestReceived: the comparison with highestReceived is
\* missing, so a reordered (smaller) offset is stored as well.
UpdateHighestReceivedOverwrite(byteOffset) ==
    /\ IF byteOffset = highestReceived
       THEN /\ highestReceived' = highestReceived
            /\ ret' = Returned("UpdateHighestReceived", FALSE, 0, NoError)
       ELSE /\ highestReceived' = byteOffset
            /\ ret' = Returned("UpdateHighestReceived", FALSE,
                               Wrap(byteOffset - highestReceived), NoError)
    /\ UNCHANGED <<streamID, connectionParameters, bytesSent, sendWindow,
                   lastWindowUpdateTime, bytesRead, receiveWindow,
                   receiveWindowIncrement, maxReceiveWindowIncrement, env>>

UpdateHighestReceived(byteOffset) ==
    /\ IF byteOffset = highestReceived
       THEN /\ highestReceived' = highestReceived
            /\ ret' = Returned("UpdateHighestReceived", FALSE, 0, NoError)
       ELSE IF byteOffset > highestReceived
       THEN /\ highestReceived' = byteOffset
            /\ ret' = Returned("UpdateHighestReceived", FALSE,
                               Wrap(byteOffset - highestReceived), NoError)
       ELSE /\ highestReceived' = highestReceived
            /\ ret' = Returned("UpdateHighestReceived", FALSE, 0,
                               ErrReceivedSmallerByteOffset)
    /\ UNCHANGED <<streamID, connectionParameters, bytesSent, sendWindow,
                   lastWindowUpdateTime, bytesRead, receiveWindow,
                   receiveWindowIncrement, maxReceiveWindowIncrement, env>>

IncrementHighestReceived(increment) ==
    /\ highestReceived' = Wrap(highestReceived + increment)
    /\ ret' = Returned("IncrementHighestReceived", FALSE, 0, NoError)
    /\ UNCHANGED <<streamID, connectionParameters, bytesSent, sendWindow,
                   lastWindowUpdateTime, bytesRead, receiveWindow,
                   receiveWindowIncrement, maxReceiveWindowIncrement, env>>

AddBytesRead(n) ==
    /\ bytesRead' = Wrap(bytesRead + n)
    /\ ret' = Returned("AddBytesRead", FALSE, 0, NoError)
    /\ UNCHANGED <<streamID, connectionParameters, bytesSent, sendWindow,
                   lastWindowUpdateTime, highestReceived, receiveWindow,
                   receiveWindowIncrement, maxReceiveWindowIncrement, env>>

\* A faulty maybeAdjustWindowIncrement: the test for the zero Time is missing,
\* so the first window update already measures an interval.
maybeAdjustWindowIncrementNoZeroTime ==
    IF rtt = 0
    THEN receiveWindowIncrement
    ELSE LET timeSinceLastWindowUpdate == now - lastWindowUpdateTime
         IN  IF timeSinceLastWindowUpdate >= 2 * rtt
             THEN receiveWindowIncrement
             ELSE MinByteCount(Wrap(2 * receiveWindowIncrement),
                               maxReceiveWindowIncrement)

\* The value maybeAdjustWindowIncrement leaves in receiveWindowIncrement.
maybeAdjustWindowIncrement ==
    IF lastWindowUpdateTime = 0
    THEN receiveWindowIncrement
    ELSE IF rtt = 0
    THEN receiveWindowIncrement
    ELSE LET timeSinceLastWindowUpdate == now - lastWindowUpdateTime
         IN  IF timeSinceLastWindowUpdate >= 2 * rtt
             THEN receiveWindowIncrement
             ELSE MinByteCount(Wrap(2 * receiveWindowIncrement),
                               maxReceiveWindowIncrement)

\* diff of MaybeUpdateWindow: an unsigned subtraction.
diff == Wrap(receiveWindow - bytesRead)

\* A faulty MaybeUpdateWindow: it records the time of the call before it
\* decides whether an update is due.
MaybeUpdateWindowAlwaysStamps ==
    /\ lastWindowUpdateTime' = now
    /\ IF diff < (receiveWindowIncrement \div 2)
       THEN /\ receiveWindowIncrement' = maybeAdjustWindowIncrement
            /\ receiveWindow' = Wrap(bytesRead + receiveWindowIncrement')
            /\ ret' = Returned("MaybeUpdateWindow", TRUE, receiveWindow',
                               NoError)
       ELSE /\ UNCHANGED <<receiveWindowIncrement, receiveWindow>>
            /\ ret' = Returned("MaybeUpdateWindow", FALSE, 0, NoError)
    /\ UNCHANGED <<streamID, connectionParameters, bytesSent, sendWindow,
                   bytesRead, highestReceived, maxReceiveWindowIncrement,
                   env>>

\* A faulty MaybeUpdateWindow: it returns the new offset but does not store
\* it in receiveWindow.
MaybeUpdateWindowKeepsWindow ==
    /\ IF diff < (receiveWindowIncrement \div 2)
       THEN /\ receiveWindowIncrement' = maybeAdjustWindowIncrement
            /\ lastWindowUpdateTime' = now
            /\ ret' = Returned("MaybeUpdateWindow", TRUE,
                               Wrap(bytesRead + receiveWindowIncrement'),
                               NoError)
       ELSE /\ UNCHANGED <<receiveWindowIncrement, lastWindowUpdateTime>>
            /\ ret' = Returned("MaybeUpdateWindow", FALSE, 0, NoError)
    /\ UNCHANGED <<streamID, connectionParameters, bytesSent, sendWindow,
                   bytesRead, highestReceived, receiveWindow,
                   maxReceiveWindowIncrement, env>>

\* The two readings of time.Now() in one call (lines 127 and 146) are the
\* same instant; the debug log of maybeAdjustWindowIncrement has no state.
MaybeUpdateWindow ==
    /\ IF diff < (receiveWindowIncrement \div 2)
       THEN /\ receiveWindowIncrement' = maybeAdjustWindowIncrement
            /\ lastWindowUpdateTime' = now
            /\ receiveWindow' = Wrap(bytesRead + receiveWindowIncrement')
            /\ ret' = Returned("MaybeUpdateWindow", TRUE, receiveWindow',
                               NoError)
       ELSE /\ UNCHANGED <<receiveWindowIncrement, lastWindowUpdateTime,
                           receiveWindow>>
            /\ ret' = Returned("MaybeUpdateWindow", FALSE, 0, NoError)
    /\ UNCHANGED <<streamID, connectionParameters, bytesSent, sendWindow,
                   bytesRead, highestReceived, maxReceiveWindowIncrement,
                   env>>

\* A faulty CheckFlowControlViolation: it already reports a violation when the
\* peer has used the window exactly.
CheckFlowControlViolationInclusive ==
    /\ IF highestReceived >= receiveWindow
       THEN ret' = Returned("CheckFlowControlViolation", TRUE, 0, NoError)
       ELSE ret' = Returned("CheckFlowControlViolation", FALSE, 0, NoError)
    /\ UNCHANGED <<fields, env>>

CheckFlowControlViolation ==
    /\ IF highestReceived > receiveWindow
       THEN ret' = Returned("CheckFlowControlViolation", TRUE, 0, NoError)
       ELSE ret' = Returned("CheckFlowControlViolation", FALSE, 0, NoError)
    /\ UNCHANGED <<fields, env>>

----------------------------------------------------------------------------
\* The collaborators: the clock, the RTT estimator and the owner of the
\* controllers of one connection

\* Time passes between two calls.
Tick ==
    /\ now < MaxTime
    /\ now' = now + 1
    /\ UNCHANGED <<fields, rtt, streamControllers, ret>>

\* The connection takes an RTT sample: SmoothedRTT() reports a new value.
UpdateRTT(r) ==
    /\ r # rtt
    /\ rtt' = r
    /\ UNCHANGED <<fields, now, streamControllers, ret>>

\* What UpdateHighestReceived(byteOffset) does to a controller whose
\* highestReceived is highest: the new highestReceived and the values returned.
HighestReceivedAfterUpdate(highest, byteOffset) ==
    IF byteOffset = highest
    THEN [highestReceived |-> highest, increment |-> 0, err |-> NoError]
    ELSE IF byteOffset > highest
    THEN [highestReceived |-> byteOffset,
          increment |-> Wrap(byteOffset - highest), err |-> NoError]
    ELSE [highestReceived |-> highest, increment |-> 0,
          err |-> ErrReceivedSmallerByteOffset]

\* What IncrementHighestReceived(increment) leaves in highestReceived.
HighestReceivedAfterIncrement(highest, increment) == Wrap(highest + increment)

\* The owner of the controllers handles a stream frame that ends at byteOffset
\* on stream id: UpdateHighestReceived on the stream's controller, then
\* IncrementHighestReceived with the increment it returned on the
\* connection-level controller.  The owner serializes the two calls.
ReceiveStreamFrame(id, byteOffset) ==
    LET updated == HighestReceivedAfterUpdate(streamControllers[id], byteOffset)
    IN  /\ streamID = 0
        /\ streamControllers' =
              [streamControllers EXCEPT ![id] = updated.highestReceived]
        /\ highestReceived' =
              HighestReceivedAfterIncrement(highestReceived, updated.increment)
        /\ ret' = Returned("IncrementHighestReceived", FALSE, 0, NoError)
        /\ UNCHANGED <<streamID, connectionParameters, bytesSent, sendWindow,
                       lastWindowUpdateTime, bytesRead, receiveWindow,
                       receiveWindowIncrement, maxReceiveWindowIncrement,
                       rtt, now>>

----------------------------------------------------------------------------
\* Specifications
\*
\* The send side, the receive window and the received offsets share no field,
\* so each is explored on its own: all three start from newFlowController and
\* run the calls that read or write the fields in question.

\* The send side of a controller of either scope.  The send windows of both
\* scopes take every value; the receive getters return 0.
InitSend ==
    /\ \E sid \in StreamIDs, sc \in ByteCount, ss \in ByteCount :
          newFlowController(sid, ConnectionParametersManager(0, 0, 0, 0, sc, ss))
    /\ rtt = 0
    /\ now = 1
    /\ streamControllers = <<>>

NextSend ==
    \/ \E n \in ByteCount : AddBytesSent(n)
    \/ \E newOffset \in ByteCount : UpdateSendWindow(newOffset)
    \/ SendWindowSize
    \/ SendWindowOffset

SpecSend == InitSend /\ [][NextSend]_vars

\* The receive window of a controller of either scope, with the clock and the
\* RTT estimator.  The initial window and the maximum increment of the
\* controller's own scope take every value; the other getters return 0.
InitWindow ==
    /\ \E sid \in StreamIDs, window \in ByteCount, max \in ByteCount :
          newFlowController(sid,
              IF sid = 0
              THEN ConnectionParametersManager(window, max, 0, 0, 0, 0)
              ELSE ConnectionParametersManager(0, 0, window, max, 0, 0))
    /\ rtt = 0
    /\ now = 1
    /\ streamControllers = <<>>

NextWindow ==
    \/ \E n \in ByteCount : AddBytesRead(n)
    \/ MaybeUpdateWindow
    \/ Tick
    \/ \E r \in Durations : UpdateRTT(r)

SpecWindow == InitWindow /\ [][NextWindow]_vars

\* The received offsets against the receive window, before the RTT estimator
\* has a sample.  The initial window of the controller's own scope takes every
\* value and the maximum increment equals it; the other getters return 0.
InitOffset ==
    /\ \E sid \in StreamIDs, window \in ByteCount :
          newFlowController(sid,
              IF sid = 0
              THEN ConnectionParametersManager(window, window, 0, 0, 0, 0)
              ELSE ConnectionParametersManager(0, 0, window, window, 0, 0))
    /\ rtt = 0
    /\ now = 1
    /\ streamControllers = <<>>

NextOffset ==
    \/ \E byteOffset \in ByteCount : UpdateHighestReceived(byteOffset)
    \/ \E increment \in ByteCount : IncrementHighestReceived(increment)
    \/ \E n \in ByteCount : AddBytesRead(n)
    \/ MaybeUpdateWindow
    \/ CheckFlowControlViolation

SpecOffset == InitOffset /\ [][NextOffset]_vars

\* The connection-level controller with the stream-level controllers of its
\* MaxStreams streams, all fresh.  The connection receive window takes every
\* value.
InitAggregate ==
    /\ \E window \in ByteCount :
          newFlowController(0,
              ConnectionParametersManager(window, window, 0, 0, 0, 0))
    /\ rtt = 0
    /\ now = 1
    /\ streamControllers = [id \in 1..MaxStreams |-> 0]

NextAggregate ==
    \/ \E id \in 1..MaxStreams, byteOffset \in ByteCount :
          ReceiveStreamFrame(id, byteOffset)
    \/ CheckFlowControlViolation

SpecAggregate == InitAggregate /\ [][NextAggregate]_vars

----------------------------------------------------------------------------
\* Properties

\* Mathematical (unbounded integer) helpers of the statements below.
Max(a, b) == IF a > b THEN a ELSE b
Min(a, b) == IF a < b THEN a ELSE b
ClampedDifference(a, b) == IF a >= b THEN a - b ELSE 0

\* C1: receiveWindow is non-decreasing: no call leaves receiveWindow smaller
\* than it was before the call.
C1_ReceiveWindowNonDecreasing ==
    [][receiveWindow' >= receiveWindow]_vars

\* C2: receiveWindowIncrement <= maxReceiveWindowIncrement holds in every
\* reachable state, starting from the state newFlowController produces.
C2_IncrementAtMostMax ==
    receiveWindowIncrement <= maxReceiveWindowIncrement

\* C3: MaybeUpdateWindow returns due = TRUE iff W - bytesRead < I/2 (the
\* difference taken in the integers, so also when bytesRead > W); when it
\* triggers, the new receiveWindow is bytesRead + I', I' the increment after
\* the auto-tuning step, and the returned offset is the new receiveWindow.
C3_WindowUpdateThreshold ==
    [][MaybeUpdateWindow =>
        /\ ret'.flag =
             (receiveWindow - bytesRead < receiveWindowIncrement \div 2)
        /\ ret'.flag =>
             /\ receiveWindow' = bytesRead + receiveWindowIncrement'
             /\ ret'.count = receiveWindow']_vars

\* C4: no byte-count subtraction wraps: the differences SendWindowSize,
\* UpdateHighestReceived and MaybeUpdateWindow act on are the true difference
\* when the minuend is at least the subtrahend, and 0 otherwise.
C4_NoSubtractionWraps ==
    [][/\ SendWindowSize =>
             ret'.count = ClampedDifference(getSendWindow, bytesSent)
       /\ \A byteOffset \in ByteCount :
             UpdateHighestReceived(byteOffset) =>
                ret'.count = ClampedDifference(byteOffset, highestReceived)
       /\ MaybeUpdateWindow =>
             diff = ClampedDifference(receiveWindow, bytesRead)]_vars

\* C5: every UpdateSendWindow(o) leaves sendWindow = max(sendWindow, o) and
\* returns TRUE iff o is strictly greater than the value stored before; no
\* other call changes sendWindow.  As sendWindow is 0 after construction, the
\* stored value is the maximum of the offsets passed so far.
C5_MonotonicSendWindow ==
    [][/\ \A newOffset \in ByteCount :
             UpdateSendWindow(newOffset) =>
                /\ sendWindow' = Max(sendWindow, newOffset)
                /\ ret'.flag = (newOffset > sendWindow)
       /\ (\A newOffset \in ByteCount : ~UpdateSendWindow(newOffset)) =>
             sendWindow' = sendWindow]_vars

\* A stale announcement is ignored after an accepted one, with sends between.
C5_Witness ==
    /\ ret.op = "UpdateSendWindow"
    /\ ret.flag = FALSE
    /\ sendWindow > 1
    /\ bytesSent > 0

\* The effective send window as the specification words it.
EffectiveSendWindow ==
    IF sendWindow # 0
    THEN sendWindow
    ELSE IF streamID = 0
         THEN connectionParameters.SendConnectionFlowControlWindow
         ELSE connectionParameters.SendStreamFlowControlWindow

\* C6: SendWindowSize returns max(0, effectiveSendWindow - bytesSent), the
\* difference taken in the integers: 0, not a wrapped value, when bytesSent
\* exceeds the effective window.
C6_SendWindowSize ==
    [][SendWindowSize =>
          ret'.count = Max(0, EffectiveSendWindow - bytesSent)]_vars

\* SendWindowSize answered 0 on a controller that sent more than its
\* negotiated initial window allows.
C6_Witness ==
    /\ ret.op = "SendWindowSize"
    /\ ret.count = 0
    /\ sendWindow = 0
    /\ EffectiveSendWindow > 0
    /\ bytesSent > EffectiveSendWindow

\* C7: on a stream-scope controller UpdateHighestReceived(o) returns
\* (o - highestReceived, nil) and sets highestReceived to o when
\* o > highestReceived, returns (0, nil) when o = highestReceived and
\* (0, ErrReceivedSmallerByteOffset) when o < highestReceived; in the latter
\* two cases no field changes.
C7_UpdateHighestReceived ==
    [][\A byteOffset \in ByteCount :
          (UpdateHighestReceived(byteOffset) /\ streamID # 0) =>
             IF byteOffset > highestReceived
             THEN /\ ret'.count = byteOffset - highestReceived
                  /\ ret'.err = NoError
                  /\ highestReceived' = byteOffset
             ELSE IF byteOffset = highestReceived
             THEN /\ ret'.count = 0
                  /\ ret'.err = NoError
                  /\ UNCHANGED fields
             ELSE /\ ret'.count = 0
                  /\ ret'.err = ErrReceivedSmallerByteOffset
                  /\ UNCHANGED fields]_vars

\* A reordered (smaller) offset was rejected on a stream that has received.
C7_Witness ==
    /\ streamID # 0
    /\ ret.op = "UpdateHighestReceived"
    /\ ret.err = ErrReceivedSmallerByteOffset
    /\ ret.count = 0
    /\ highestReceived > 1

\* C8: when MaybeUpdateWindow triggers with smoothedRTT R > 0 and a previous
\* trigger less than 2R ago, receiveWindowIncrement becomes
\* min(2 * receiveWindowIncrement, maxReceiveWindowIncrement); when the
\* previous trigger is 2R or more ago, R = 0 or there was no previous trigger,
\* the increment is unchanged.
C8_RTTGatedGrowth ==
    [][(MaybeUpdateWindow /\ ret'.flag) =>
          IF /\ lastWindowUpdateTime # 0
             /\ rtt > 0
             /\ now - lastWindowUpdateTime < 2 * rtt
          THEN receiveWindowIncrement' =
                  Min(2 * receiveWindowIncrement, maxReceiveWindowIncrement)
          ELSE receiveWindowIncrement' = receiveWindowIncrement]_vars

\* C9: the auto-tuning step never shrinks the increment: no call leaves
\* receiveWindowIncrement smaller than it was before the call.
C9_IncrementNeverShrinks ==
    [][receiveWindowIncrement' >= receiveWindowIncrement]_vars

\* C10: CheckFlowControlViolation returns TRUE iff
\* highestReceived > receiveWindow and changes no field; on a fresh
\* connection-scope controller IncrementHighestReceived(i) leaves
\* highestReceived = i and the window at its initial value w, so that the
\* check reports a violation for i = w + 1 and none for i = w (the scaled form
\* of w = 1000 with i = 1001 and i = 1000).
C10_ViolationPredicate ==
    [][/\ CheckFlowControlViolation =>
             /\ ret'.flag = (highestReceived > receiveWindow)
             /\ UNCHANGED fields
       /\ \A increment \in ByteCount :
             (/\ IncrementHighestReceived(increment)
              /\ streamID = 0
              /\ highestReceived = 0) =>
                /\ highestReceived' = increment
                /\ receiveWindow' = receiveWindow]_vars

\* The check reported a violation on a connection-scope controller whose
\* highestReceived is one more than its initial window.
C10_Witness ==
    /\ streamID = 0
    /\ ret.op = "CheckFlowControlViolation"
    /\ ret.flag = TRUE
    /\ receiveWindow = connectionParameters.ReceiveConnectionFlowControlWindow
    /\ receiveWindow > 0
    /\ highestReceived = receiveWindow + 1

\* C11: on a stream-scope controller that has sent no window update, with the
\* window and the increment at the initial window w, AddBytesRead(n) followed
\* by MaybeUpdateWindow() with w - n < w/2 returns (TRUE, n + w), leaves the
\* increment at w and sets receiveWindow to n + w (the scaled form of
\* w = 100, n = 60, offset 160; n + w is within the byte range).
C11_EndToEndScenario ==
    [][(/\ MaybeUpdateWindow
        /\ streamID # 0
        /\ ret.op = "AddBytesRead"
        /\ lastWindowUpdateTime = 0
        /\ receiveWindow = connectionParameters.ReceiveStreamFlowControlWindow
        /\ receiveWindowIncrement = receiveWindow
        /\ bytesRead <= receiveWindow
        /\ receiveWindow - bytesRead < receiveWindowIncrement \div 2
        /\ bytesRead + receiveWindowIncrement <= MaxByteCount) =>
          /\ ret' = Returned("MaybeUpdateWindow", TRUE,
                             bytesRead + receiveWindowIncrement, NoError)
          /\ receiveWindowIncrement' = receiveWindowIncrement
          /\ receiveWindow' = bytesRead + receiveWindowIncrement]_vars

\* Initial window 4, maximum increment 7, 3 bytes read: the update is due
\* (remaining 1 < 2) and announces offset 7 with the increment still 4, also
\* with an RTT sample present.
C11_Witness ==
    /\ streamID # 0
    /\ connectionParameters.ReceiveStreamFlowControlWindow = 4
    /\ maxReceiveWindowIncrement = 7
    /\ bytesRead = 3
    /\ rtt > 0
    /\ ret = Returned("MaybeUpdateWindow", TRUE, 7, NoError)
    /\ receiveWindowIncrement = 4
    /\ receiveWindow = 7

\* C12: on a stream-scope controller highestReceived is 0 after construction
\* and every UpdateHighestReceived(o) leaves it at max(highestReceived, o),
\* never smaller than before, and returns the amount by which it grew: after
\* any sequence of such calls highestReceived is the maximum of the offsets
\* passed so far and the sum of the increments returned.
C12_HighestReceivedIsMaximum ==
    [][/\ ret.op = "newFlowController" => highestReceived = 0
       /\ \A byteOffset \in ByteCount :
             (UpdateHighestReceived(byteOffset) /\ streamID # 0) =>
                /\ highestReceived' = Max(highestReceived, byteOffset)
                /\ highestReceived' >= highestReceived
                /\ ret'.count = highestReceived' - highestReceived]_vars

\* A duplicate of the highest offset seen so far arrived on a stream: nothing
\* is added.
C12_Witness ==
    /\ streamID # 0
    /\ ret = Returned("UpdateHighestReceived", FALSE, 0, NoError)
    /\ highestReceived > 1

\* C13: a MaybeUpdateWindow call that returns due = FALSE returns offset 0 and
\* leaves receiveWindow, receiveWindowIncrement and lastWindowUpdateTime
\* unchanged; one that returns due = TRUE sets lastWindowUpdateTime to the
\* current time; neither changes bytesRead, highestReceived, bytesSent,
\* sendWindow or maxReceiveWindowIncrement.
C13_MaybeUpdateWindowFrame ==
    [][MaybeUpdateWindow =>
          /\ UNCHANGED <<bytesRead, highestReceived, bytesSent, sendWindow,
                         maxReceiveWindowIncrement>>
          /\ IF ret'.flag
             THEN lastWindowUpdateTime' = now
             ELSE /\ ret'.count = 0
                  /\ UNCHANGED <<receiveWindow, receiveWindowIncrement,
                                 lastWindowUpdateTime>>]_vars

\* A call that found no update due, later than the last window update: the
\* older time stamp is still there.
C13_Witness ==
    /\ ret = Returned("MaybeUpdateWindow", FALSE, 0, NoError)
    /\ lastWindowUpdateTime # 0
    /\ lastWindowUpdateTime < now
    /\ bytesRead > 0

\* C14: a controller no method has been called on has receiveWindow =
\* receiveWindowIncrement = the negotiated connection receive window and
\* maxReceiveWindowIncrement = the negotiated connection maximum when
\* streamID = 0, the stream receive window and stream maximum otherwise;
\* bytesSent, sendWindow, bytesRead and highestReceived are 0 and
\* lastWindowUpdateTime is the zero Time.
C14_ScopeDependentConstruction ==
    ret.op = "newFlowController" =>
       /\ IF streamID = 0
          THEN /\ receiveWindow =
                     connectionParameters.ReceiveConnectionFlowControlWindow
               /\ receiveWindowIncrement =
                     connectionParameters.ReceiveConnectionFlowControlWindow
               /\ maxReceiveWindowIncrement =
                     connectionParameters.MaxReceiveConnectionFlowControlWindow
          ELSE /\ receiveWindow =
                     connectionParameters.ReceiveStreamFlowControlWindow
               /\ receiveWindowIncrement =
                     connectionParameters.ReceiveStreamFlowControlWindow
               /\ maxReceiveWindowIncrement =
                     connectionParameters.MaxReceiveStreamFlowControlWindow
       /\ bytesSent = 0
       /\ sendWindow = 0
       /\ bytesRead = 0
       /\ highestReceived = 0
       /\ lastWindowUpdateTime = 0

\* A fresh connection-level controller whose parameters source reports other
\* windows for the connection than for a stream.
C14_Witness ==
    /\ ret.op = "newFlowController"
    /\ streamID = 0
    /\ receiveWindow > connectionParameters.ReceiveStreamFlowControlWindow
    /\ maxReceiveWindowIncrement >
          connectionParameters.MaxReceiveStreamFlowControlWindow
    /\ receiveWindowIncrement = receiveWindow

\* The sum, in the integers, of the highestReceived of the stream-level
\* controllers 1..n.
RECURSIVE SumOfStreams(_)
SumOfStreams(n) ==
    IF n = 0 THEN 0 ELSE streamControllers[n] + SumOfStreams(n - 1)

\* C15: when every increment a stream-level UpdateHighestReceived returns is
\* forwarded to the connection-level IncrementHighestReceived, and nothing
\* else is, the connection controller's highestReceived is the sum of the
\* highestReceived of all stream controllers.
C15_ConnectionAggregation ==
    highestReceived = SumOfStreams(MaxStreams)

\* C16: a MaybeUpdateWindow call that follows a MaybeUpdateWindow call which
\* returned due = TRUE, with no other call on the controller in between,
\* returns due = FALSE and changes no field, whatever time has passed and
\* whatever the smoothed RTT has become.
C16_NoDuplicateWindowUpdate ==
    [][(MaybeUpdateWindow /\ ret.op = "MaybeUpdateWindow" /\ ret.flag) =>
          /\ ret' = Returned("MaybeUpdateWindow", FALSE, 0, NoError)
          /\ UNCHANGED fields]_vars

\* The second call has returned: the window still ends one increment after
\* the bytes read, and time has passed since the update.
C16_Witness ==
    /\ ret = Returned("MaybeUpdateWindow", FALSE, 0, NoError)
    /\ lastWindowUpdateTime # 0
    /\ lastWindowUpdateTime < now
    /\ rtt > 0
    /\ bytesRead > 0
    /\ receiveWindowIncrement > 1
    /\ receiveWindow = bytesRead + receiveWindowIncrement

\* C17: in every state in which the application has read the whole advertised
\* window (bytesRead = receiveWindow), MaybeUpdateWindow returns due = TRUE
\* with an offset greater than the receiveWindow before the call, for every
\* initial window.
C17_NoReceiveSideStall ==
    [][(MaybeUpdateWindow /\ bytesRead = receiveWindow) =>
          /\ ret'.flag
          /\ ret'.count > receiveWindow]_vars

\* C18: over any sequence of UpdateSendWindow and AddBytesSent calls the value
\* SendWindowOffset returns (getSendWindow) never decreases, and no
\* UpdateSendWindow call leaves the value SendWindowSize returns smaller than
\* it was before the call, for every initial send window.
C18_SendAuthorizationNeverShrinks ==
    [][/\ getSendWindow' >= getSendWindow
       /\ (\E newOffset \in ByteCount : UpdateSendWindow(newOffset)) =>
             ClampedDifference(getSendWindow, bytesSent)' >=
                ClampedDifference(getSendWindow, bytesSent)]_vars

\* The initial receive window the controller was constructed with.
InitialReceiveWindow ==
    IF streamID = 0
    THEN connectionParameters.ReceiveConnectionFlowControlWindow
    ELSE connectionParameters.ReceiveStreamFlowControlWindow

\* C19: with a smoothed RTT above 0 and an initial window above 0 and at most
\* maxReceiveWindowIncrement, once receiveWindowIncrement equals
\* maxReceiveWindowIncrement it stays equal to it: a window update less than
\* two RTTs after the one before leaves it at the maximum.
C19_IncrementStaysAtMaximum ==
    [][(/\ MaybeUpdateWindow
        /\ ret'.flag
        /\ rtt > 0
        /\ lastWindowUpdateTime # 0
        /\ now - lastWindowUpdateTime < 2 * rtt
        /\ InitialReceiveWindow > 0
        /\ InitialReceiveWindow <= maxReceiveWindowIncrement
        /\ receiveWindowIncrement = maxReceiveWindowIncrement) =>
          receiveWindowIncrement' = maxReceiveWindowIncrement]_vars

====
